---- MODULE Spec2Model ----
(***************************************************************************)
(* A model of sentry-mcp: the time-range validator, the reporter's         *)
(* operations over the Sentry API, and the request router with its         *)
(* stdin/stdout loop.                                                      *)
(*                                                                         *)
(* Python strings that the code parses are sequences of one-character      *)
(* strings; instants are whole hours; an exception message is the tuple    *)
(* of the parts its format string joins.                                   *)
(***************************************************************************)
EXTENDS Integers, Sequences, FiniteSets, TLC

VARIABLES
    clock,      \* the local wall clock (the last instant datetime.now() gave)
    upstream,   \* what the Sentry API holds: [dateCreated]
    server,     \* the SentryMCPServer's fields, set at construction
    reporter,   \* the SentryReporter's fields, set at construction
    op,         \* the operation last invoked: [name, args]
    result,     \* its outcome: Pending, a return or a raise
    calls,      \* the upstream requests it sent, in order
    invoked,    \* the report operations it called, in order
    clockReads, \* the instants its datetime.now() calls returned, in order
    pc,         \* position of main(): "start", "serving" or "stopped"
    stdin,      \* what main() read last, and how many lines it has read
    stdout,     \* what main() printed last, and how many lines it has printed
    lookups     \* how many project-list requests the process has sent upstream

envVars == <<clock, upstream>>
objVars == <<server, reporter>>
traceVars == <<op, result, calls, invoked, clockReads>>
ioVars == <<pc, stdin, stdout, lookups>>
vars == <<envVars, objVars, traceVars, ioVars>>

(***************************************************************************)
(* Bounds                                                                  *)
(***************************************************************************)
\* largest number written in a generated time-range string
MaxN == 170
\* how many leading zeros a generated time-range string may carry
MaxZeros == 1
\* latest reading of the local clock
MaxClock == 2
\* how far the clock may advance between two reads
MaxDrift == 1
\* how many lines main() reads
MaxLines == 2
\* latest creation instant the upstream may report
MaxCreated == 3

(***************************************************************************)
(* Python values and outcomes                                              *)
(***************************************************************************)
Str(s) == [t |-> "str", s |-> s]
PyInt(n) == [t |-> "int", v |-> n]
PyNone == [t |-> "none"]
PyList(items) == [t |-> "list", items |-> items]
PyDict(d) == [t |-> "dict", d |-> d]
\* a str whose characters the code never inspects, kept in one piece
Name(n) == [t |-> "str", s |-> <<n>>]
\* type(v).__name__
TypeName(v) == IF v.t = "none" THEN "NoneType" ELSE v.t

Pending == [kind |-> "pending"]
Return(v) == [kind |-> "return", value |-> v]
Raise(e, m) == [kind |-> "raise", exc |-> e, msg |-> m]

Returned(r) == r.kind = "return"
Raised(r) == r.kind = "raise"

(***************************************************************************)
(* Characters                                                              *)
(***************************************************************************)
DigitChars == <<"0", "1", "2", "3", "4", "5", "6", "7", "8", "9">>
IsDigit(c) == \E i \in 1..10 : DigitChars[i] = c
DigitVal(c) == (CHOOSE i \in 1..10 : DigitChars[i] = c) - 1
IsSpace(c) == c \in {" ", "\n", "\t"}

ALL == <<"a", "l", "l">>

\* s[:-1]
DropLast(s) == IF Len(s) = 0 THEN s ELSE SubSeq(s, 1, Len(s) - 1)
\* s[-1], of a non-empty s
LastChar(s) == s[Len(s)]

(***************************************************************************)
(* re.match(r'^\d+[hd]$', s): one or more digits, one of h and d, and then *)
(* the end of the string or a single newline that ends the string ($).     *)
(***************************************************************************)
ReMatchPattern(s) ==
    \E n \in 1..Len(s) :
        /\ \A i \in 1..n : IsDigit(s[i])
        /\ n + 1 <= Len(s)
        /\ s[n + 1] \in {"h", "d"}
        /\ \/ Len(s) = n + 1
           \/ Len(s) = n + 2 /\ s[n + 2] = "\n"

(***************************************************************************)
(* int(s) of a str: surrounding whitespace is stripped, one sign is        *)
(* allowed, the rest must be one or more digits; anything else raises      *)
(* ValueError.                                                             *)
(***************************************************************************)
RECURSIVE LStrip(_)
LStrip(s) == IF Len(s) > 0 /\ IsSpace(s[1]) THEN LStrip(Tail(s)) ELSE s

RECURSIVE RStrip(_)
RStrip(s) == IF Len(s) > 0 /\ IsSpace(s[Len(s)]) THEN RStrip(DropLast(s)) ELSE s

RECURSIVE DigitsValue(_)
DigitsValue(s) ==
    IF Len(s) = 0 THEN 0
    ELSE 10 * DigitsValue(DropLast(s)) + DigitVal(LastChar(s))

IntOfStr(s) ==
    LET body == RStrip(LStrip(s))
        signed == Len(body) > 0 /\ body[1] \in {"-", "+"}
        digits == IF signed THEN Tail(body) ELSE body
    IN  IF Len(digits) > 0 /\ \A i \in 1..Len(digits) : IsDigit(digits[i])
        THEN Return(IF signed /\ body[1] = "-"
                    THEN 0 - DigitsValue(digits) ELSE DigitsValue(digits))
        ELSE Raise("ValueError", <<"invalid literal for int() with base 10: ", s>>)

(***************************************************************************)
(* validate_time_range                                                     *)
(***************************************************************************)
HourLimit == 168
DayLimit == 90

ValidateTimeRange_HourOffByOne(time_range) ==
    IF time_range = Str(ALL) THEN Return(PyNone)
    ELSE IF time_range.t # "str"
    THEN Raise("TypeError", <<"expected string or bytes-like object">>)
    ELSE IF ~ReMatchPattern(time_range.s)
    THEN Raise("SentryValidationError",
               <<"Invalid time range format: ", time_range.s>>)
    ELSE LET parsed == IntOfStr(DropLast(time_range.s))
             unit == LastChar(time_range.s)
         IN  IF Raised(parsed) THEN parsed
             ELSE IF parsed.value <= 0
             THEN Raise("SentryValidationError",
                        <<"Time range value must be positive, got: ", parsed.value>>)
             ELSE IF unit = "h" /\ parsed.value >= HourLimit
             THEN Raise("SentryValidationError",
                        <<"Hour-based time range too large: ", parsed.value>>)
             ELSE IF unit = "d" /\ parsed.value > DayLimit
             THEN Raise("SentryValidationError",
                        <<"Day-based time range too large: ", parsed.value>>)
             ELSE Return(PyNone)

ValidateTimeRange(time_range) ==
    IF time_range = Str(ALL) THEN Return(PyNone)
    ELSE IF time_range.t # "str"
    THEN Raise("TypeError", <<"expected string or bytes-like object">>)
    ELSE IF ~ReMatchPattern(time_range.s)
    THEN Raise("SentryValidationError",
               <<"Invalid time range format: ", time_range.s>>)
    ELSE LET parsed == IntOfStr(DropLast(time_range.s))
             unit == LastChar(time_range.s)
         IN  IF Raised(parsed) THEN parsed
             ELSE IF parsed.value <= 0
             THEN Raise("SentryValidationError",
                        <<"Time range value must be positive, got: ", parsed.value>>)
             ELSE IF unit = "h" /\ parsed.value > HourLimit
             THEN Raise("SentryValidationError",
                        <<"Hour-based time range too large: ", parsed.value>>)
             ELSE IF unit = "d" /\ parsed.value > DayLimit
             THEN Raise("SentryValidationError",
                        <<"Day-based time range too large: ", parsed.value>>)
             ELSE Return(PyNone)

(***************************************************************************)
(* The time-range strings the validator is tried on: every number up to    *)
(* MaxN in decimal, with and without the decorations the tests reject.     *)
(***************************************************************************)
RECURSIVE Decimal(_)
Decimal(n) ==
    IF n < 10 THEN <<DigitChars[n + 1]>>
    ELSE Decimal(n \div 10) \o <<DigitChars[(n % 10) + 1]>>

RECURSIVE Zeros(_)
Zeros(k) == IF k = 0 THEN <<>> ELSE <<"0">> \o Zeros(k - 1)

Prefixes == {Zeros(k) : k \in 0..MaxZeros} \cup {<<"-">>, <<" ">>, <<"1", ".">>}
Units == {<<>>, <<"h">>, <<"d">>, <<"H">>, <<"D">>, <<"x">>, <<"h", "d">>}
Suffixes == {<<>>, <<"\n">>, <<" ">>, <<"1", "d">>}

OtherStrings ==
    { ALL, <<>>, <<"h">>, <<"d", "a", "y">>, <<"h", "o", "u", "r">>,
      <<"a", "l", "l", " ", "d", "a", "y">>, <<"1", " ", "h">>,
      <<"1", " ", "d", "a", "y">>, <<"a", "l", "l", "\n">>, <<"A", "L", "L">> }

TimeRangeStrings ==
    OtherStrings \cup
    { p \o Decimal(n) \o u \o s :
        p \in Prefixes, n \in 0..MaxN, u \in Units, s \in Suffixes }

(***************************************************************************)
(* Datetimes.  A datetime is a wall-clock reading in whole hours and       *)
(* whether it carries a time zone; an ISO-8601 text is the reading and     *)
(* its zone designator ("Z", "+00:00", "" for none) or is not a date.      *)
(***************************************************************************)
HoursPerDay == 24

Naive(t) == [t |-> t, aware |-> FALSE]
Iso(t, zone) == [t |-> t, zone |-> zone]
NotADate == [t |-> 0, zone |-> "garbage"]

\* s.replace('Z', '+00:00')
ReplaceZ(iso) == IF iso.zone = "Z" THEN Iso(iso.t, "+00:00") ELSE iso

\* datetime.fromisoformat
FromIsoFormat(iso) ==
    IF iso.zone = "+00:00" THEN Return([t |-> iso.t, aware |-> TRUE])
    ELSE IF iso.zone = "" THEN Return(Naive(iso.t))
    ELSE Raise("ValueError", <<"Invalid isoformat string: ", iso>>)

\* datetime.isoformat
IsoFormat(dt) == Iso(dt.t, IF dt.aware THEN "+00:00" ELSE "")

(***************************************************************************)
(* The upstream.  A reply is a JSON body or a requests failure; an         *)
(* operation is handed the reply every endpoint would give and records     *)
(* the requests it really sends, in order, each with its reply.            *)
(***************************************************************************)
Ok(body) == [ok |-> TRUE, body |-> body]
Fail(err) == [ok |-> FALSE, err |-> err]

Call(endpoint, params, reply) ==
    [endpoint |-> endpoint, params |-> params, reply |-> reply]

\* an operation that sends its failed request a second time before failing
Effect_RetryLast(r, c, k) ==
    [result |-> r,
     calls |-> IF r.kind = "raise" /\ c # <<>> THEN Append(c, c[Len(c)]) ELSE c,
     clockReads |-> k]

\* what an operation did: its outcome, its upstream requests, its clock reads
Effect(r, c, k) == [result |-> r, calls |-> c, clockReads |-> k]

\* SentryReporter._make_request: the body, or SentryAPIError wrapping the
\* requests failure
MakeRequest(reply) ==
    IF reply.ok THEN Return(reply.body)
    ELSE Raise("SentryAPIError", <<"API request failed: ", reply.err>>)

NoParams == [none |-> TRUE]

\* a creation date remembered from an earlier call instead of looked up
GetProjectCreationDate_Cached(replies) ==
    Effect(Return([t |-> 0, aware |-> TRUE]), <<>>, <<>>)

\* SentryReporter._get_project_creation_date
GetProjectCreationDate(replies) ==
    LET reply == replies["project_detail"]
        sent == <<Call("project_detail", NoParams, reply)>>
        data == MakeRequest(reply)
    IN  IF Raised(data) THEN Effect(data, sent, <<>>)
        ELSE IF "dateCreated" \notin DOMAIN data.value
        THEN Effect(Raise("KeyError", <<"dateCreated">>), sent, <<>>)
        ELSE Effect(FromIsoFormat(ReplaceZ(data.value.dateCreated)), sent, <<>>)

\* a day counted as one hour
Delta_DaysAsHours(unit, value) == value

\* timedelta(hours=value) / timedelta(days=value), in hours
Delta(unit, value) == IF unit = "h" THEN value ELSE HoursPerDay * value

\* SentryReporter._parse_time_range; reads[i] is what the i-th datetime.now()
\* of the call returns
ParseTimeRange(time_range, reads, replies) ==
    LET now == Naive(reads[1])
    IN  IF time_range = Str(ALL)
        THEN LET created == GetProjectCreationDate(replies)
             IN  IF Raised(created.result)
                 THEN Effect(created.result, created.calls, <<reads[1]>>)
                 ELSE Effect(Return(<<created.result.value, now>>),
                             created.calls, <<reads[1]>>)
        ELSE LET valid == ValidateTimeRange(time_range)
             IN  IF Raised(valid) THEN Effect(valid, <<>>, <<reads[1]>>)
                 ELSE LET unit == LastChar(time_range.s)
                          value == IntOfStr(DropLast(time_range.s))
                      IN  IF Raised(value) THEN Effect(value, <<>>, <<reads[1]>>)
                          ELSE IF unit \notin {"h", "d"}
                          THEN Effect(Raise("UnboundLocalError", <<"delta">>),
                                      <<>>, <<reads[1]>>)
                          ELSE Effect(
                              Return(<<Naive(now.t - Delta(unit, value.value)), now>>),
                              <<>>, <<reads[1]>>)

(***************************************************************************)
(* The report operations of core/reporter.py.  `self` is the reporter's    *)
(* fields; args is the mapping of the named arguments the call binds.      *)
(***************************************************************************)
\* Python truth of an argument value
Truthy(v) ==
    \/ v.t = "str" /\ v.s # <<>>
    \/ v.t = "int" /\ v.v # 0
    \/ v.t = "list" /\ v.items # <<>>
    \/ v.t = "dict" /\ DOMAIN v.d # {}

\* dict.get(key, default)
Get(d, key, default) == IF key \in DOMAIN d THEN d[key] ELSE default

\* int(x) of a Python value
IntOf(v) ==
    IF v.t = "int" THEN Return(v.v)
    ELSE IF v.t = "str" THEN IntOfStr(v.s)
    ELSE Raise("TypeError", <<"int() argument must be a string or a number">>)

\* the first exception among outcomes, or none
RECURSIVE FirstRaise(_)
FirstRaise(rs) ==
    IF Len(rs) = 0 THEN Pending
    ELSE IF Raised(Head(rs)) THEN Head(rs)
    ELSE FirstRaise(Tail(rs))

RECURSIVE SumValues(_)
SumValues(rs) == IF Len(rs) = 0 THEN 0 ELSE Head(rs).value + SumValues(Tail(rs))

\* a sum that counts the issues instead of adding the field
SumField_CountsIssues(issues, key) == Return(Len(issues))

\* sum(int(issue.get(key, 0)) for issue in issues)
SumField(issues, key) ==
    LET ints == [i \in 1..Len(issues) |-> IntOf(Get(issues[i], key, PyInt(0)))]
    IN  IF FirstRaise(ints) # Pending THEN FirstRaise(ints)
        ELSE Return(SumValues(ints))

TimeRangeField(start, end) == [start |-> IsoFormat(start), end |-> IsoFormat(end)]

\* the statsPeriod / start / end entries of a query, None values dropped
WindowParams(time_range, start, end) ==
    IF time_range # Str(ALL) THEN "statsPeriod" :> time_range
    ELSE ("start" :> IsoFormat(start)) @@ ("end" :> IsoFormat(end))

Optional(key, v) == IF Truthy(v) THEN key :> v ELSE <<>>

\* SentryReporter.get_project_stats
GetProjectStats(self, args, reads, replies) ==
    LET time_range == Get(args, "time_range", Str(ALL))
        group_by == Get(args, "group_by", PyNone)
        environment == Get(args, "environment", PyNone)
        range == ParseTimeRange(time_range, reads, replies)
    IN  IF Raised(range.result) THEN range
        ELSE
        LET start == range.result.value[1]
            end == range.result.value[2]
            params == WindowParams(time_range, start, end)
                      @@ ("field" :> <<"count()", "users_affected", "timestamp">>)
                      @@ ("project" :> self.project_id)
                      @@ Optional("environment", environment)
                      @@ Optional("groupBy", group_by)
            reply == replies["issues"]
            sent == range.calls \o <<Call("issues", params, reply)>>
            stats == MakeRequest(reply)
        IN  IF Raised(stats) THEN Effect(stats, sent, range.clockReads)
            ELSE
            LET total_errors == SumField(stats.value, "count")
                total_users == SumField(stats.value, "userCount")
            IN  IF Raised(total_errors) THEN Effect(total_errors, sent, range.clockReads)
                ELSE IF Raised(total_users)
                THEN Effect(total_users, sent, range.clockReads)
                ELSE Effect(
                    Return([total_errors |-> total_errors.value,
                            total_users_affected |-> total_users.value,
                            error_breakdown |->
                                IF Truthy(group_by) THEN PyList(stats.value)
                                ELSE PyNone,
                            time_range |-> TimeRangeField(start, end)]),
                    sent, range.clockReads)

TrendLimit == 100

\* the first key of keys that the mapping d lacks (keys in subscript order)
RECURSIVE FirstMissing(_, _)
FirstMissing(d, keys) ==
    IF Len(keys) = 0 THEN Pending
    ELSE IF Head(keys) \notin DOMAIN d THEN Raise("KeyError", <<Head(keys)>>)
    ELSE FirstMissing(d, Tail(keys))

\* an entry whose message is the issue's type
TrendEntry_TypeAsMessage(issue) ==
    LET missing == FirstMissing(issue, <<"type", "title", "count", "firstSeen", "lastSeen">>)
    IN  IF missing # Pending THEN missing
        ELSE Return([error_type |-> issue["type"],
                     message |-> issue["type"],
                     count |-> issue["count"],
                     users_affected |-> Get(issue, "userCount", PyInt(0)),
                     first_seen |-> issue["firstSeen"],
                     last_seen |-> issue["lastSeen"]])

\* one entry of the 'trends' list
TrendEntry(issue) ==
    LET missing == FirstMissing(issue, <<"type", "title", "count", "firstSeen", "lastSeen">>)
    IN  IF missing # Pending THEN missing
        ELSE Return([error_type |-> issue["type"],
                     message |-> issue["title"],
                     count |-> issue["count"],
                     users_affected |-> Get(issue, "userCount", PyInt(0)),
                     first_seen |-> issue["firstSeen"],
                     last_seen |-> issue["lastSeen"]])

\* SentryReporter.get_error_trends
GetErrorTrends(self, args, reads, replies) ==
    LET time_range == Get(args, "time_range", Str(ALL))
        min_occurrences == Get(args, "min_occurrences", PyInt(10))
        range == ParseTimeRange(time_range, reads, replies)
    IN  IF Raised(range.result) THEN range
        ELSE
        LET start == range.result.value[1]
            end == range.result.value[2]
            params == WindowParams(time_range, start, end)
                      @@ ("query" :> <<"times_seen:>=", min_occurrences>>)
                      @@ ("sort" :> "freq")
                      @@ ("limit" :> TrendLimit)
                      @@ ("project" :> self.project_id)
            reply == replies["issues"]
            sent == range.calls \o <<Call("issues", params, reply)>>
            trends == MakeRequest(reply)
        IN  IF Raised(trends) THEN Effect(trends, sent, range.clockReads)
            ELSE
            LET entries == [i \in 1..Len(trends.value) |-> TrendEntry(trends.value[i])]
            IN  IF FirstRaise(entries) # Pending
                THEN Effect(FirstRaise(entries), sent, range.clockReads)
                ELSE Effect(
                    Return([trends |-> [i \in 1..Len(entries) |-> entries[i].value],
                            time_range |-> TimeRangeField(start, end)]),
                    sent, range.clockReads)

ReleaseLimit == 5

\* sum(count for timestamp, count in stats_data)
RECURSIVE SumCounts(_)
SumCounts(pairs) ==
    IF Len(pairs) = 0 THEN 0 ELSE Head(pairs)[2] + SumCounts(Tail(pairs))

\* session_data.get('groups', [{}])[0].get('totals', {}).get(key, 0)
SessionTotal(session_data, key) ==
    LET groups == Get(session_data, "groups", <<[none |-> TRUE]>>)
    IN  IF Len(groups) = 0 THEN Raise("IndexError", <<"list index out of range">>)
        ELSE Return(Get(Get(groups[1], "totals", <<>>), key, 0))

\* one entry of 'latest_releases'
ReleaseEntry(release) ==
    LET missing == FirstMissing(release, <<"version", "dateCreated">>)
    IN  IF missing # Pending THEN missing
        ELSE Return([version |-> release["version"],
                     created |-> release["dateCreated"],
                     status |-> Get(release, "status", "unknown")])

\* release_data[:5]
FirstReleases(release_data) ==
    SubSeq(release_data, 1,
           IF Len(release_data) < ReleaseLimit THEN Len(release_data) ELSE ReleaseLimit)

\* the mapping get_impact_analysis builds from the three bodies
ImpactReport(stats_data, session_data, release_data, start, end) ==
    LET total_sessions == SessionTotal(session_data, "sum(session)")
        total_users == SessionTotal(session_data, "count_unique(user)")
        latest == [i \in 1..Len(FirstReleases(release_data)) |->
                      ReleaseEntry(release_data[i])]
    IN  IF Raised(total_sessions) THEN total_sessions
        ELSE IF FirstRaise(latest) # Pending THEN FirstRaise(latest)
        ELSE Return(
            [error_stats |-> [total_errors |-> SumCounts(stats_data),
                              error_timeline |-> stats_data],
             session_stats |-> [total_sessions |-> total_sessions.value,
                                total_users |-> total_users.value,
                                timeline |-> Get(session_data, "intervals", <<>>)],
             release_stats |-> [total_releases |-> Len(release_data),
                                latest_releases |->
                                    [i \in 1..Len(latest) |-> latest[i].value]],
             time_range |-> TimeRangeField(start, end)])

\* SentryReporter.get_impact_analysis
GetImpactAnalysis(self, args, reads, replies) ==
    LET time_range == args["time_range"]
        issue_id == Get(args, "issue_id", PyNone)
        range == ParseTimeRange(time_range, reads, replies)
    IN  IF Raised(range.result) THEN range
        ELSE
        LET start == range.result.value[1]
            end == range.result.value[2]
            stats_reply == replies["stats"]
            stats_call == Call("stats",
                               ("stat" :> "received") @@ ("resolution" :> "1h")
                               @@ ("statsPeriod" :> time_range),
                               stats_reply)
            stats_data == MakeRequest(stats_reply)
            session_reply == replies["sessions"]
            session_call == Call("sessions",
                                 ("project" :> self.project_id)
                                 @@ ("statsPeriod" :> time_range)
                                 @@ ("interval" :> "1h")
                                 @@ ("field" :> <<"sum(session)", "count_unique(user)">>)
                                 @@ (IF Truthy(issue_id)
                                     THEN "query" :> <<"issue:", issue_id>> ELSE <<>>),
                                 session_reply)
            session_data == MakeRequest(session_reply)
            release_reply == replies["releases"]
            release_call == Call("releases",
                                 ("project" :> self.project_id)
                                 @@ ("statsPeriod" :> time_range),
                                 release_reply)
            release_data == MakeRequest(release_reply)
        IN  IF Raised(stats_data)
            THEN Effect(stats_data, range.calls \o <<stats_call>>, range.clockReads)
            ELSE IF Raised(session_data)
            THEN Effect(session_data, range.calls \o <<stats_call, session_call>>,
                        range.clockReads)
            ELSE IF Raised(release_data)
            THEN Effect(release_data,
                        range.calls \o <<stats_call, session_call, release_call>>,
                        range.clockReads)
            ELSE Effect(
                ImpactReport(stats_data.value, session_data.value, release_data.value,
                             start, end),
                range.calls \o <<stats_call, session_call, release_call>>,
                range.clockReads)

(***************************************************************************)
(* The reporter of sentry_reports.py, which sentry_mcp.py's handle_request *)
(* builds: it validates nothing and talks to requests itself.              *)
(***************************************************************************)
\* sentry_reports.SentryReporter._get_project_creation_date
LegacyGetProjectCreationDate(replies) ==
    LET reply == replies["project_detail"]
        sent == <<Call("project_detail", NoParams, reply)>>
    IN  IF ~reply.ok
        THEN Effect(Raise("RuntimeError",
                          <<"Failed to get project creation date: ", reply.err>>),
                    sent, <<>>)
        ELSE IF "dateCreated" \notin DOMAIN reply.body
        THEN Effect(Raise("KeyError", <<"dateCreated">>), sent, <<>>)
        ELSE Effect(FromIsoFormat(ReplaceZ(reply.body.dateCreated)), sent, <<>>)

\* sentry_reports.SentryReporter._parse_time_range
LegacyParseTimeRange(time_range, reads, replies) ==
    LET now == Naive(reads[1])
        none == <<>>
        read == <<reads[1]>>
    IN  IF time_range = Str(ALL)
        THEN LET created == LegacyGetProjectCreationDate(replies)
             IN  IF Raised(created.result)
                 THEN Effect(created.result, created.calls, read)
                 ELSE Effect(Return(<<created.result.value, now>>), created.calls, read)
        ELSE IF time_range.t # "str"
        THEN Effect(Raise("TypeError", <<"object is not subscriptable">>), none, read)
        ELSE IF time_range.s = <<>>
        THEN Effect(Raise("IndexError", <<"string index out of range">>), none, read)
        ELSE LET unit == LastChar(time_range.s)
                 value == IntOfStr(DropLast(time_range.s))
             IN  IF Raised(value) THEN Effect(value, none, read)
                 ELSE IF unit \notin {"h", "d"}
                 THEN Effect(Raise("ValueError", <<"Invalid time range format.">>),
                             none, read)
                 ELSE Effect(
                     Return(<<Naive(now.t - Delta(unit, value.value)), now>>),
                     none, read)

\* the mapping sentry_reports' get_impact_analysis builds from the three bodies
LegacyImpactReport(stats_data, session_data, release_data, start, end) ==
    LET report == ImpactReport(stats_data, session_data, release_data, start, end)
        crash_free_rate == SessionTotal(session_data, "crash_free_rate")
    IN  IF Raised(report) THEN report
        ELSE Return([report.value EXCEPT
                 !.session_stats =
                     [total_sessions |-> report.value.session_stats.total_sessions,
                      total_users |-> report.value.session_stats.total_users,
                      crash_free_rate |->
                          IF "groups" \in DOMAIN session_data
                             /\ "totals" \in DOMAIN session_data["groups"][1]
                             /\ "crash_free_rate" \in
                                    DOMAIN session_data["groups"][1]["totals"]
                          THEN crash_free_rate.value ELSE 100,
                      timeline |-> report.value.session_stats.timeline]])

\* what the except clause of sentry_reports' get_impact_analysis returns
LegacyApiError(failed, stats_reply) ==
    [error |-> <<"API Error: ", failed.err>>,
     details |-> IF stats_reply.ok THEN <<"text", stats_reply.body>>
                 ELSE <<"str", failed.err>>]

\* sentry_reports.SentryReporter.get_impact_analysis
LegacyGetImpactAnalysis(self, args, reads, replies) ==
    LET time_range == args["time_range"]
        issue_id == Get(args, "issue_id", PyNone)
        range == LegacyParseTimeRange(time_range, reads, replies)
    IN  IF Raised(range.result) THEN range
        ELSE
        LET start == range.result.value[1]
            end == range.result.value[2]
            stats_reply == replies["stats"]
            stats_call == Call("stats",
                               ("stat" :> "received") @@ ("resolution" :> "1h")
                               @@ ("statsPeriod" :> time_range),
                               stats_reply)
            session_reply == replies["sessions"]
            session_call == Call("sessions",
                                 ("project" :> self.project_id)
                                 @@ ("statsPeriod" :> time_range)
                                 @@ ("interval" :> "1h")
                                 @@ ("field" :> <<"sum(session)", "sum(user)",
                                                  "count_unique(user)", "crash_free_rate">>)
                                 @@ (IF Truthy(issue_id)
                                     THEN "query" :> <<"issue:", issue_id>> ELSE <<>>),
                                 session_reply)
            release_reply == replies["releases"]
            release_call == Call("releases",
                                 ("project" :> self.project_id)
                                 @@ ("statsPeriod" :> time_range),
                                 release_reply)
        IN  IF ~stats_reply.ok
            THEN Effect(Return(LegacyApiError(stats_reply, stats_reply)),
                        range.calls \o <<stats_call>>, range.clockReads)
            ELSE IF ~session_reply.ok
            THEN Effect(Return(LegacyApiError(session_reply, stats_reply)),
                        range.calls \o <<stats_call, session_call>>, range.clockReads)
            ELSE IF ~release_reply.ok
            THEN Effect(Return(LegacyApiError(release_reply, stats_reply)),
                        range.calls \o <<stats_call, session_call, release_call>>,
                        range.clockReads)
            ELSE Effect(
                LegacyImpactReport(stats_reply.body, session_reply.body,
                                   release_reply.body, start, end),
                range.calls \o <<stats_call, session_call, release_call>>,
                range.clockReads)

\* sum(issue["count"] for issue in stats): no conversion, no default
RECURSIVE LegacySumCount(_)
LegacySumCount(issues) ==
    IF issues = <<>> THEN Return(0)
    ELSE IF "count" \notin DOMAIN Head(issues) THEN Raise("KeyError", <<"count">>)
    ELSE IF Head(issues)["count"].t # "int"
    THEN Raise("TypeError", <<"unsupported operand type(s) for +: 'int' and 'str'">>)
    ELSE LET rest == LegacySumCount(Tail(issues))
         IN  IF Raised(rest) THEN rest
             ELSE Return(Head(issues)["count"].v + rest.value)

\* sum(issue.get("userCount", 0) for issue in stats)
RECURSIVE LegacySumUsers(_)
LegacySumUsers(issues) ==
    IF issues = <<>> THEN Return(0)
    ELSE IF Get(Head(issues), "userCount", PyInt(0)).t # "int"
    THEN Raise("TypeError", <<"unsupported operand type(s) for +: 'int' and 'str'">>)
    ELSE LET rest == LegacySumUsers(Tail(issues))
         IN  IF Raised(rest) THEN rest
             ELSE Return(Get(Head(issues), "userCount", PyInt(0)).v + rest.value)

\* sentry_reports.SentryReporter.get_project_stats
LegacyGetProjectStats(self, args, reads, replies) ==
    LET time_range == args["time_range"]
        range == LegacyParseTimeRange(time_range, reads, replies)
    IN  IF Raised(range.result) THEN range
        ELSE
        LET start == range.result.value[1]
            end == range.result.value[2]
            params == WindowParams(time_range, start, end)
                      @@ ("field" :> <<"count()", "users_affected", "timestamp">>)
                      @@ ("project" :> self.project_id)
                      @@ Optional("environment", args["environment"])
                      @@ Optional("groupBy", args["group_by"])
            reply == replies["issues"]
            sent == range.calls \o <<Call("issues", params, reply)>>
        IN  IF ~reply.ok
            THEN Effect(Return(LegacyApiError(reply, reply)), sent, range.clockReads)
            ELSE IF Raised(LegacySumCount(reply.body))
            THEN Effect(LegacySumCount(reply.body), sent, range.clockReads)
            ELSE IF Raised(LegacySumUsers(reply.body))
            THEN Effect(LegacySumUsers(reply.body), sent, range.clockReads)
            ELSE Effect(
                Return([total_errors |-> LegacySumCount(reply.body).value,
                        total_users_affected |-> LegacySumUsers(reply.body).value,
                        error_breakdown |->
                            IF Truthy(args["group_by"]) THEN PyList(reply.body)
                            ELSE PyNone,
                        time_range |-> TimeRangeField(start, end)]),
                sent, range.clockReads)

\* sentry_reports.SentryReporter.get_error_trends
LegacyGetErrorTrends(self, args, reads, replies) ==
    LET time_range == args["time_range"]
        range == LegacyParseTimeRange(time_range, reads, replies)
    IN  IF Raised(range.result) THEN range
        ELSE
        LET start == range.result.value[1]
            end == range.result.value[2]
            params == WindowParams(time_range, start, end)
                      @@ ("query" :> <<"times_seen:>=", args["min_occurrences"]>>)
                      @@ ("sort" :> "freq")
                      @@ ("limit" :> TrendLimit)
                      @@ ("project" :> self.project_id)
            reply == replies["issues"]
            sent == range.calls \o <<Call("issues", params, reply)>>
        IN  IF ~reply.ok
            THEN Effect(Return(LegacyApiError(reply, reply)), sent, range.clockReads)
            ELSE
            LET entries == [i \in 1..Len(reply.body) |-> TrendEntry(reply.body[i])]
            IN  IF FirstRaise(entries) # Pending
                THEN Effect(FirstRaise(entries), sent, range.clockReads)
                ELSE Effect(
                    Return([trends |-> [i \in 1..Len(entries) |-> entries[i].value],
                            time_range |-> TimeRangeField(start, end)]),
                    sent, range.clockReads)

(***************************************************************************)
(* The router of core/server.py.  A request line is a text json.loads      *)
(* rejects, or the text of a JSON document; json.loads gives the decoder's *)
(* message for the one and the Python value for the other.                 *)
(***************************************************************************)
BadText(text) == [kind |-> "text", text |-> text]
JsonText(doc) == [kind |-> "json", doc |-> doc]

\* str(e) of the JSONDecodeError json.loads raises on the text
JSONDecodeErrorMsg(text) ==
    CASE text = "invalid json" -> "Expecting value: line 1 column 1 (char 0)"
      [] text = "{bad" ->
            "Expecting property name enclosed in double quotes: line 1 column 2 (char 1)"
      [] text = "{\"tool\": " -> "Expecting value: line 1 column 10 (char 9)"
      [] OTHER -> "Extra data: line 1 column 2 (char 1)"

\* json.loads
JsonLoads(line) ==
    IF line.kind = "text" THEN Raise("JSONDecodeError", JSONDecodeErrorMsg(line.text))
    ELSE Return(line.doc)

\* json.dumps
JsonDumps(value) == [kind |-> "json", doc |-> value]

TypedErrors == {"SentryValidationError", "SentryAPIError", "SentryConfigError"}

Tools == {"get_project_stats", "get_error_trends", "get_impact_analysis"}

\* the parameters of each report operation, and those without a default
Accepted(tool) ==
    CASE tool = "get_project_stats" -> {"time_range", "group_by", "environment"}
      [] tool = "get_error_trends" -> {"time_range", "min_occurrences"}
      [] tool = "get_impact_analysis" -> {"time_range", "issue_id"}

Required(tool) == IF tool = "get_impact_analysis" THEN {"time_range"} ELSE {}

\* binding **params to the operation's parameters: the TypeError it raises,
\* or Pending when the call goes through
Bind(tool, params) ==
    IF params.t # "dict"
    THEN Raise("TypeError", <<"argument after ** must be a mapping, not ", TypeName(params)>>)
    ELSE IF DOMAIN params.d \ Accepted(tool) # {}
    THEN Raise("TypeError", <<"got an unexpected keyword argument ",
                              CHOOSE k \in DOMAIN params.d \ Accepted(tool) : TRUE>>)
    ELSE IF Required(tool) \ DOMAIN params.d # {}
    THEN Raise("TypeError", <<"missing 1 required positional argument: ",
                              CHOOSE k \in Required(tool) \ DOMAIN params.d : TRUE>>)
    ELSE Pending

\* what handle_request did: its outcome, the upstream requests and clock
\* reads of the operation it called, and the operations it called, each
\* with its own outcome
Handled(r, c, k, i) == [result |-> r, calls |-> c, clockReads |-> k, invoked |-> i]

\* the report operation `name` was called with args, with this effect
Invoke(name, args, effect) ==
    effect @@ [invoked |-> <<[name |-> name, args |-> args, outcome |-> effect.result]>>]

\* a dispatch that sends every known tool to get_project_stats
Dispatch_AlwaysStats(self, tool, params, reads, replies) ==
    IF Bind(tool, params) # Pending THEN Handled(Bind(tool, params), <<>>, <<>>, <<>>)
    ELSE Invoke("get_project_stats", params.d,
                GetProjectStats(self, params.d, reads, replies))

\* the if/elif chain on the three known tools: self.reporter.<tool>(**params)
Dispatch(self, tool, params, reads, replies) ==
    IF Bind(tool, params) # Pending THEN Handled(Bind(tool, params), <<>>, <<>>, <<>>)
    ELSE CASE tool = "get_project_stats" ->
                Invoke("get_project_stats", params.d,
                       GetProjectStats(self, params.d, reads, replies))
           [] tool = "get_error_trends" ->
                Invoke("get_error_trends", params.d,
                       GetErrorTrends(self, params.d, reads, replies))
           [] tool = "get_impact_analysis" ->
                Invoke("get_impact_analysis", params.d,
                       GetImpactAnalysis(self, params.d, reads, replies))

ErrorEnvelope(msg) == "error" :> msg

\* the envelope of an exception caught around the dispatch
Caught_AllUnexpected(raised) == ErrorEnvelope(<<"Unexpected error: ", raised.msg>>)

Caught(raised) ==
    IF raised.exc \in TypedErrors THEN ErrorEnvelope(raised.msg)
    ELSE ErrorEnvelope(<<"Unexpected error: ", raised.msg>>)

InvalidJson_NoDetail(decode_error) == ErrorEnvelope(<<"Invalid JSON request">>)

\* the envelope of a line json.loads rejects
InvalidJson(decode_error) ==
    ErrorEnvelope(<<"Invalid JSON request: ", decode_error.msg>>)

\* the try block around the dispatch: the operation's result, or the
\* envelope of what it raised
Tried(done) ==
    [done EXCEPT !.result = IF Raised(@) THEN Return(Caught(@)) ELSE @]

\* a router that dispatches before it looks for the tool
Route_NoToolCheck(self, tool, params, reads, replies) ==
    IF tool.t = "str" /\ Len(tool.s) = 1 /\ tool.s[1] \in Tools
    THEN Tried(Dispatch(self, tool.s[1], params, reads, replies))
    ELSE Handled(Return(ErrorEnvelope(<<"Unknown tool: ", tool>>)), <<>>, <<>>, <<>>)

\* handle_request from the missing-tool test on
Route(self, tool, params, reads, replies) ==
    IF ~Truthy(tool)
    THEN Handled(Return(ErrorEnvelope(<<"Missing required field: tool">>)),
                 <<>>, <<>>, <<>>)
    ELSE IF tool.t = "str" /\ Len(tool.s) = 1 /\ tool.s[1] \in Tools
    THEN Tried(Dispatch(self, tool.s[1], params, reads, replies))
    ELSE Handled(Return(ErrorEnvelope(<<"Unknown tool: ", tool>>)), <<>>, <<>>, <<>>)

\* handle_request once json.loads has returned: request.get('tool') and
\* request.get('parameters', {}), outside every try block
Loaded(self, request, reads, replies) ==
    IF request.t # "dict"
    THEN Handled(Raise("AttributeError",
                       <<TypeName(request), " object has no attribute 'get'">>),
                 <<>>, <<>>, <<>>)
    ELSE Route(self, Get(request.d, "tool", PyNone),
               Get(request.d, "parameters", PyDict(<<>>)), reads, replies)

\* SentryMCPServer.handle_request
HandleRequest(self, request_data, reads, replies) ==
    IF Raised(JsonLoads(request_data))
    THEN Handled(Return(InvalidJson(JsonLoads(request_data))), <<>>, <<>>, <<>>)
    ELSE Loaded(self, JsonLoads(request_data).value, reads, replies)

(***************************************************************************)
(* Construction: SentryMCPServer.__init__ reads the environment and        *)
(* builds the reporter, which resolves the project id.                     *)
(***************************************************************************)
\* the fields SentryReporter.__init__ sets
Reporter(auth_token, org_slug, project_slug, project_id) ==
    [auth_token |-> auth_token, org_slug |-> org_slug,
     project_slug |-> project_slug, project_id |-> project_id,
     headers |-> [Authorization |-> <<"Bearer ", auth_token>>,
                  ContentType |-> "application/json"]]

NoReporter == [none |-> TRUE]

\* str(x)
StrOf(v) == IF v.t = "int" THEN Str(Decimal(v.v)) ELSE v

\* the index of the first project with the slug, 0 when there is none
FirstWithSlug(projects, slug) ==
    LET hits == { i \in 1..Len(projects) : projects[i].slug = slug }
    IN  IF hits = {} THEN 0 ELSE CHOOSE i \in hits : \A j \in hits : i <= j

\* SentryReporter._get_project_id
GetProjectId(org_slug, project_slug, replies) ==
    LET reply == replies["projects"]
        sent == <<Call("projects", NoParams, reply)>>
        projects == MakeRequest(reply)
    IN  IF Raised(projects) THEN Effect(projects, sent, <<>>)
        ELSE IF FirstWithSlug(projects.value, project_slug) = 0
        THEN Effect(Raise("SentryConfigError", <<"Project ", project_slug, " not found">>),
                    sent, <<>>)
        ELSE Effect(
            Return(StrOf(projects.value[FirstWithSlug(projects.value, project_slug)].id)),
            sent, <<>>)

\* SentryReporter.__init__: the reporter's fields, or what _get_project_id raised
NewReporter(auth_token, org_slug, project_slug, replies) ==
    LET id == GetProjectId(org_slug, project_slug, replies)
    IN  IF Raised(id.result) THEN id
        ELSE Effect(Return(Reporter(auth_token, org_slug, project_slug, id.result.value)),
                    id.calls, <<>>)

\* a constructor that builds the reporter without looking at the environment
NewServer_NoEnvCheck(env, replies) ==
    LET made == NewReporter(env.SENTRY_AUTH_TOKEN, env.SENTRY_ORG,
                            env.SENTRY_PROJECT, replies)
    IN  IF Raised(made.result) THEN made
        ELSE Effect(Return([server |-> [auth_token |-> env.SENTRY_AUTH_TOKEN,
                                        org_slug |-> env.SENTRY_ORG,
                                        project_slug |-> env.SENTRY_PROJECT],
                            reporter |-> made.result.value]),
                    made.calls, <<>>)

\* SentryMCPServer.__init__: the server's fields and its reporter's, or
\* what was raised
NewServer(env, replies) ==
    IF ~(Truthy(env.SENTRY_AUTH_TOKEN) /\ Truthy(env.SENTRY_ORG)
         /\ Truthy(env.SENTRY_PROJECT))
    THEN Effect(Raise("SentryConfigError", <<"Missing required environment variables.">>),
                <<>>, <<>>)
    ELSE LET made == NewReporter(env.SENTRY_AUTH_TOKEN, env.SENTRY_ORG,
                                 env.SENTRY_PROJECT, replies)
         IN  IF Raised(made.result) THEN made
             ELSE Effect(Return([server |-> [auth_token |-> env.SENTRY_AUTH_TOKEN,
                                             org_slug |-> env.SENTRY_ORG,
                                             project_slug |-> env.SENTRY_PROJECT],
                                 reporter |-> made.result.value]),
                         made.calls, <<>>)

(***************************************************************************)
(* The request handler of sentry_mcp.py.  It is handed the parsed request, *)
(* reads the environment and builds a sentry_reports reporter on every     *)
(* request, and picks the parameters it knows out of 'parameters'.         *)
(***************************************************************************)
\* sentry_reports.SentryReporter._get_project_id
LegacyGetProjectId(org_slug, project_slug, replies) ==
    LET reply == replies["projects"]
        sent == <<Call("projects", NoParams, reply)>>
    IN  IF ~reply.ok
        THEN Effect(Raise("RuntimeError", <<"Failed to get project ID: ", reply.err>>),
                    sent, <<>>)
        ELSE IF FirstWithSlug(reply.body, project_slug) = 0
        THEN Effect(Raise("ValueError", <<"Project ", project_slug, " not found">>),
                    sent, <<>>)
        ELSE Effect(Return(StrOf(reply.body[FirstWithSlug(reply.body, project_slug)].id)),
                    sent, <<>>)

\* sentry_reports.SentryReporter.__init__
LegacyNewReporter(auth_token, org_slug, project_slug, replies) ==
    LET id == LegacyGetProjectId(org_slug, project_slug, replies)
    IN  IF Raised(id.result) THEN id
        ELSE Effect(Return(Reporter(auth_token, org_slug, project_slug, id.result.value)),
                    id.calls, <<>>)

\* what the except Exception clause of sentry_mcp.handle_request returns
LegacyEnvelope(raised) == ("error" :> raised.msg) @@ ("type" :> raised.exc)

\* the if/elif chain of sentry_mcp.handle_request on a mapping of parameters
LegacyDispatch(self, tool, params, reads, replies) ==
    IF tool = Name("get_project_stats")
    THEN LET args == ("time_range" :> Get(params, "time_range", Str(<<"2", "4", "h">>)))
                     @@ ("group_by" :> Get(params, "group_by", PyNone))
                     @@ ("environment" :> Get(params, "environment", PyNone))
         IN  Invoke("get_project_stats", args,
                    LegacyGetProjectStats(self, args, reads, replies))
    ELSE IF tool = Name("get_error_trends")
    THEN LET args == ("time_range" :> Get(params, "time_range", Str(<<"7", "d">>)))
                     @@ ("min_occurrences" :> Get(params, "min_occurrences", PyInt(10)))
         IN  Invoke("get_error_trends", args,
                    LegacyGetErrorTrends(self, args, reads, replies))
    ELSE LET args == ("time_range" :> Get(params, "time_range", Str(<<"2", "4", "h">>)))
                     @@ ("issue_id" :> Get(params, "issue_id", PyNone))
         IN  Invoke("get_impact_analysis", args,
                    LegacyGetImpactAnalysis(self, args, reads, replies))

\* the upstream requests of the reporter's construction come before those
\* of the dispatch
After(sent, done) == [done EXCEPT !.calls = sent \o @]

\* the except Exception clause around the whole of sentry_mcp.handle_request
LegacyTried(done) ==
    [done EXCEPT !.result = IF Raised(@) THEN Return(LegacyEnvelope(@)) ELSE @]

\* sentry_mcp.handle_request once the reporter is built
LegacyRoute(self, request_data, reads, replies) ==
    IF request_data.t # "dict"
    THEN Handled(Raise("AttributeError",
                       <<TypeName(request_data), " object has no attribute 'get'">>),
                 <<>>, <<>>, <<>>)
    ELSE
    LET tool == Get(request_data.d, "tool", PyNone)
        params == Get(request_data.d, "parameters", PyDict(<<>>))
    IN  IF tool \notin {Name(t) : t \in Tools}
        THEN Handled(Return(ErrorEnvelope(<<"Unknown tool: ", tool>>)), <<>>, <<>>, <<>>)
        ELSE IF params.t # "dict"
        THEN Handled(Raise("AttributeError",
                           <<TypeName(params), " object has no attribute 'get'">>),
                     <<>>, <<>>, <<>>)
        ELSE LegacyDispatch(self, tool, params.d, reads, replies)

\* sentry_mcp.handle_request
LegacyHandleRequest(env, request_data, reads, replies) ==
    IF ~(Truthy(env.SENTRY_AUTH_TOKEN) /\ Truthy(env.SENTRY_ORG_SLUG)
         /\ Truthy(env.SENTRY_PROJECT_SLUG))
    THEN Handled(Return(ErrorEnvelope(<<"Missing required environment variables">>)),
                 <<>>, <<>>, <<>>)
    ELSE LET made == LegacyNewReporter(env.SENTRY_AUTH_TOKEN, env.SENTRY_ORG_SLUG,
                                       env.SENTRY_PROJECT_SLUG, replies)
         IN  IF Raised(made.result)
             THEN Handled(Return(LegacyEnvelope(made.result)), made.calls, <<>>, <<>>)
             ELSE After(made.calls,
                        LegacyTried(LegacyRoute(made.result.value, request_data,
                                                reads, replies)))

(***************************************************************************)
(* Specification of the validator alone: a string is drawn, then           *)
(* validate_time_range is applied to it.                                   *)
(***************************************************************************)
NoServer == [none |-> TRUE]

NoIO ==
    /\ pc = "none"
    /\ stdin = [n |-> 0]
    /\ stdout = [n |-> 0]
    /\ lookups = 0

Idle ==
    /\ clock = 0
    /\ upstream = [dateCreated |-> NotADate]
    /\ server = NoServer
    /\ reporter = NoReporter
    /\ calls = <<>>
    /\ invoked = <<>>
    /\ clockReads = <<>>
    /\ NoIO

InitValidate ==
    /\ Idle
    /\ op \in [name : {"validate_time_range"}, args : {Str(s) : s \in TimeRangeStrings}]
    /\ result = Pending

Validate ==
    /\ op.name = "validate_time_range"
    /\ result = Pending
    /\ result' = ValidateTimeRange(op.args)
    /\ UNCHANGED <<envVars, objVars, op, calls, invoked, clockReads, ioVars>>

NextValidate == Validate

SpecValidate == InitValidate /\ [][NextValidate]_vars

(***************************************************************************)
(* What the validator is specified to accept, written without the code's   *)
(* parsing: 'all', or digits and one unit, the digits' value in range.     *)
(***************************************************************************)
InRangeString(limit, unit) ==
    { Zeros(k) \o Decimal(n) \o <<unit>> : k \in 0..(MaxZeros + 1), n \in 1..limit }

PlainHourStrings == { Decimal(n) \o <<"h">> : n \in 1..168 }
PlainDayStrings == { Decimal(n) \o <<"d">> : n \in 1..90 }

SpecifiedValid(s) ==
    \/ s = ALL
    \/ s \in InRangeString(168, "h")
    \/ s \in InRangeString(90, "d")

Validated == op.name = "validate_time_range" /\ result # Pending

\* C4: validate_time_range returns without error for 'all', for every '<N>h'
\* with 1 <= N <= 168 and for every '<N>d' with 1 <= N <= 90.
C4_ValidRangesAccepted ==
    (Validated /\ op.args.s \in ({ALL} \cup PlainHourStrings \cup PlainDayStrings))
        => Returned(result)

C4_Witness ==
    /\ Validated
    /\ op.args.s = <<"1", "6", "8", "h">>
    /\ Returned(result)

\* C5: every string outside the accepted set fails validation, and the
\* failure is a SentryValidationError, never another exception type.
C5_InvalidRangesRaiseValidationError ==
    (Validated /\ ~SpecifiedValid(op.args.s))
        => (Raised(result) /\ result.exc = "SentryValidationError")

(***************************************************************************)
(* Specification of the reporter: the upstream's data changes, and the     *)
(* reporter's operations are called with any arguments, clock readings     *)
(* and upstream replies.                                                   *)
(***************************************************************************)
IsoDates ==
    { Iso(t, z) : t \in 0..MaxCreated, z \in {"Z", ""} } \cup {NotADate}

\* the replies of GET projects/{org}/{project}/
DetailReplies ==
    { Ok([slug |-> "project", dateCreated |-> upstream.dateCreated]),
      Ok([slug |-> "project"]),
      Fail("500 Server Error") }

\* what the next datetime.now() may return: the clock does not go back
ClockReadings ==
    { <<t>> : t \in { u \in clock..(clock + MaxDrift) : u <= MaxClock } }

LastRead(reads) == IF Len(reads) = 0 THEN clock ELSE reads[Len(reads)]

\* the time_range arguments _parse_time_range is called with
TimeRangeArgs ==
    { Str(Decimal(n) \o u) : n \in 0..MaxN, u \in {<<"h">>, <<"d">>} }
    \cup { Str(s) : s \in OtherStrings }
    \cup { Str(<<"2", "4", "h", "\n">>), Str(<<"2", "4", "H">>), Str(<<"-", "1", "h">>),
           PyInt(24), PyNone }

\* the time_range arguments the report operations are called with
ReportRanges ==
    { Str(ALL), Str(<<"2", "4", "h">>), Str(<<"7", "d">>), Str(<<"1", "6", "9", "h">>),
      Str(<<"2", "4", "h", "\n">>), PyInt(24) }

\* a named argument that is omitted or has one of the values
OptArg(key, values) == {<<>>} \cup { key :> v : v \in values }

StatsArgs ==
    { a @@ b @@ c : a \in OptArg("time_range", ReportRanges),
                    b \in OptArg("group_by", {Str(<<"l", "e", "v", "e", "l">>), Str(<<>>)}),
                    c \in OptArg("environment", {Str(<<"p", "r", "o", "d">>)}) }

TrendsArgs ==
    { a @@ b : a \in OptArg("time_range", ReportRanges),
               b \in OptArg("min_occurrences", {PyInt(5)}) }

ImpactArgs ==
    { ("time_range" :> r) @@ b : r \in ReportRanges,
                                 b \in OptArg("issue_id", {Str(<<"7">>)}) }

Invocations ==
    [name : {"_parse_time_range"}, args : { "time_range" :> r : r \in TimeRangeArgs }]
    \cup [name : {"get_project_stats"}, args : StatsArgs]
    \cup [name : {"get_error_trends"}, args : TrendsArgs]
    \cup [name : {"get_impact_analysis", "legacy.get_impact_analysis"},
          args : ImpactArgs]

\* the bodies the upstream answers with
Issue(count, users) ==
    ("type" :> "error") @@ ("title" :> "Boom") @@ ("count" :> count)
    @@ ("userCount" :> users) @@ ("firstSeen" :> Iso(0, "Z")) @@ ("lastSeen" :> Iso(1, "Z"))

IssueReplies ==
    { Ok(<<Issue(PyInt(10), PyInt(5)), Issue(Str(<<"2", "0">>), PyInt(8))>>),
      Ok(<<>>),
      Ok(<<("count" :> PyInt(3))>>),
      Fail("500 Server Error") }

\* an issue as the issues endpoint lists it, without a userCount
Listed(type, title, count) ==
    ("type" :> type) @@ ("title" :> title) @@ ("count" :> count)
    @@ ("firstSeen" :> Iso(0, "Z")) @@ ("lastSeen" :> Iso(1, "Z"))

\* what the issues endpoint may answer get_error_trends with: also a list
\* that is not in frequency order and repeats an issue, and a list longer
\* than the limit the query asks for
TrendReplies ==
    IssueReplies
    \cup { Ok(<<Listed("TypeError", "a", PyInt(1)),
                Listed("ValueError", "b", PyInt(9)) @@ ("userCount" :> PyInt(4)),
                Listed("TypeError", "a", PyInt(1))>>),
           Ok([i \in 1..(TrendLimit + 1) |-> Issue(PyInt(1), PyInt(1))]) }

StatsReplies == { Ok(<<<<0, 3>>, <<1, 4>>>>), Fail("502 Bad Gateway") }

SessionReplies ==
    { Ok(("groups" :> <<"totals" :> (("sum(session)" :> 7) @@ ("count_unique(user)" :> 2))>>)
         @@ ("intervals" :> <<0, 1>>)),
      Ok("groups" :> <<>>),
      Fail("503 Service Unavailable") }

Release(version) ==
    ("version" :> version) @@ ("dateCreated" :> Iso(version, "Z"))

ReleaseReplies ==
    { Ok(<<Release(6), Release(5), Release(4), Release(3), Release(2), Release(1)>>),
      Ok(<<"version" :> 1>>),
      Fail("504 Gateway Timeout") }

\* the operation `name` ran on op.args with this effect
Apply(name, effect) ==
    /\ op.name = name
    /\ result' = effect.result
    /\ calls' = effect.calls
    /\ clockReads' = effect.clockReads
    /\ clock' = LastRead(effect.clockReads)
    /\ UNCHANGED <<op, invoked>>

InitReporter ==
    /\ clock = 0
    /\ upstream \in [dateCreated : IsoDates]
    /\ server = NoServer
    /\ reporter = Reporter(Name("token"), Name("org"), Name("project"), Str(<<"4", "2">>))
    /\ op \in Invocations
    /\ result = Pending
    /\ calls = <<>>
    /\ invoked = <<>>
    /\ clockReads = <<>>
    /\ NoIO

UpstreamChange ==
    /\ \E d \in IsoDates : upstream' = [dateCreated |-> d]
    /\ UNCHANGED <<clock, objVars, traceVars, ioVars>>

CallParseTimeRange ==
    /\ op.name = "_parse_time_range"
    /\ \E reads \in ClockReadings, detail \in DetailReplies :
        \E effect \in {ParseTimeRange(op.args["time_range"], reads,
                        [project_detail |-> detail])} :
            /\ Apply("_parse_time_range", effect)
            /\ UNCHANGED <<upstream, objVars, ioVars>>

CallGetProjectStats ==
    /\ op.name = "get_project_stats"
    /\ \E reads \in ClockReadings, detail \in DetailReplies, issues \in IssueReplies :
        \E effect \in {GetProjectStats(reporter, op.args, reads,
                        [project_detail |-> detail, issues |-> issues])} :
            /\ Apply("get_project_stats", effect)
            /\ UNCHANGED <<upstream, objVars, ioVars>>

CallGetErrorTrends ==
    /\ op.name = "get_error_trends"
    /\ \E reads \in ClockReadings, detail \in DetailReplies, issues \in TrendReplies :
        \E effect \in {GetErrorTrends(reporter, op.args, reads,
                        [project_detail |-> detail, issues |-> issues])} :
            /\ Apply("get_error_trends", effect)
            /\ UNCHANGED <<upstream, objVars, ioVars>>

CallGetImpactAnalysis ==
    /\ op.name = "get_impact_analysis"
    /\ \E reads \in ClockReadings, detail \in DetailReplies, stats \in StatsReplies,
       sessions \in SessionReplies, releases \in ReleaseReplies :
        \E effect \in {GetImpactAnalysis(reporter, op.args, reads,
                        [project_detail |-> detail, stats |-> stats,
                        sessions |-> sessions, releases |-> releases])} :
            /\ Apply("get_impact_analysis", effect)
            /\ UNCHANGED <<upstream, objVars, ioVars>>

CallLegacyGetImpactAnalysis ==
    /\ op.name = "legacy.get_impact_analysis"
    /\ \E reads \in ClockReadings, detail \in DetailReplies, stats \in StatsReplies,
       sessions \in SessionReplies, releases \in ReleaseReplies :
        \E effect \in {LegacyGetImpactAnalysis(reporter, op.args, reads,
                        [project_detail |-> detail, stats |-> stats,
                        sessions |-> sessions, releases |-> releases])} :
            /\ Apply("legacy.get_impact_analysis", effect)
            /\ UNCHANGED <<upstream, objVars, ioVars>>

NextReporter ==
    \/ UpstreamChange
    \/ CallParseTimeRange
    \/ CallGetProjectStats
    \/ CallGetErrorTrends
    \/ CallGetImpactAnalysis
    \/ CallLegacyGetImpactAnalysis

SpecReporter == InitReporter /\ [][NextReporter]_vars

(***************************************************************************)
(* Claims about _parse_time_range                                          *)
(***************************************************************************)
\* the operation `name` has run
Ran(name) == op.name = name /\ result # Pending

\* the time_range the operation was called with
TimeRange == op.args["time_range"]

Parsed == Ran("_parse_time_range") /\ Returned(result)
Start == result.value[1]
End == result.value[2]

\* the number of units a string of PlainHourStrings or PlainDayStrings names
UnitsOf(s) == CHOOSE n \in 1..168 : s = Decimal(n) \o <<LastChar(s)>>

\* C6: every (start, end) pair _parse_time_range returns has start <= end,
\* for 'all' too and for a creation instant later than the local clock.
C6_StartNotAfterEnd == Parsed => Start.t <= End.t

\* C7: for every valid '<N>h' or '<N>d' the clock is read once, end is that
\* reading, start is N hours (N days) before it, and nothing is asked of
\* the upstream.
C7_RelativeRangeExact ==
    (/\ Ran("_parse_time_range")
     /\ TimeRange.t = "str"
     /\ TimeRange.s \in (PlainHourStrings \cup PlainDayStrings))
        => /\ Returned(result)
           /\ Len(clockReads) = 1
           /\ End = Naive(clockReads[1])
           /\ Start.aware = FALSE
           /\ End.t - Start.t =
                 IF LastChar(TimeRange.s) = "h" THEN UnitsOf(TimeRange.s)
                 ELSE 24 * UnitsOf(TimeRange.s)
           /\ calls = <<>>

C7_Witness ==
    /\ Parsed
    /\ TimeRange = Str(<<"9", "0", "d">>)
    /\ clockReads = <<1>>
    /\ Start.t = 1 - 2160

\* C8: every _parse_time_range('all') sends exactly one project-detail
\* lookup and, when it returns, its start is the creation instant that
\* lookup answered with; nothing is kept from an earlier call.
C8_AllLooksUpCreationEachCall ==
    (Ran("_parse_time_range") /\ TimeRange = Str(ALL))
        => /\ Len(calls) = 1
           /\ calls[1].endpoint = "project_detail"
           /\ Returned(result) =>
                 /\ calls[1].reply.ok
                 /\ Start.t = calls[1].reply.body.dateCreated.t
                 /\ Start.aware = (calls[1].reply.body.dateCreated.zone # "")

\* a second 'all' call, after the upstream's creation instant changed,
\* returns the new instant
C8_Witness ==
    /\ Parsed
    /\ TimeRange = Str(ALL)
    /\ clock = 2
    /\ upstream.dateCreated = Iso(3, "Z")
    /\ Start = [t |-> 3, aware |-> TRUE]

(***************************************************************************)
(* Claims about get_impact_analysis                                        *)
(***************************************************************************)
ImpactRan == Ran("get_impact_analysis") \/ Ran("legacy.get_impact_analysis")

SubQueries == {"stats", "sessions", "releases"}

\* a sub-query of the call was sent and failed
SubQueryFailed ==
    \E i \in 1..Len(calls) : calls[i].endpoint \in SubQueries /\ ~calls[i].reply.ok

\* all three sub-queries of the call were sent and answered
SubQueriesSucceeded ==
    \A e \in SubQueries :
        \E i \in 1..Len(calls) : calls[i].endpoint = e /\ calls[i].reply.ok

ReportKeys == {"error_stats", "session_stats", "release_stats"}

\* C9: get_impact_analysis returns a result mapping only when all three
\* sub-queries succeeded; when one of them fails the call raises, and no
\* mapping with error_stats, session_stats or release_stats is returned.
C9_FailedSubQueryRaises ==
    ImpactRan =>
        /\ SubQueryFailed => Raised(result)
        /\ (Returned(result) /\ DOMAIN result.value \cap ReportKeys # {})
               => SubQueriesSucceeded

(***************************************************************************)
(* Specification of the server: main() of core/server.py constructs the    *)
(* server and serves the lines of its input, one at a time.                *)
(***************************************************************************)
Environments ==
    [SENTRY_AUTH_TOKEN : {Name("token"), PyNone, Str(<<>>)},
     SENTRY_ORG : {Name("org"), PyNone, Str(<<>>)},
     SENTRY_PROJECT : {Name("project"), PyNone, Str(<<>>)}]

ProjectListReplies ==
    { Ok(<<[id |-> PyInt(41), slug |-> Name("other")],
           [id |-> PyInt(42), slug |-> Name("project")]>>),
      Ok(<<[id |-> PyInt(41), slug |-> Name("other")]>>),
      Fail("401 Unauthorized") }

Request(tool, params) == JsonText(PyDict(("tool" :> tool) @@ ("parameters" :> params)))

Params(time_range) == PyDict("time_range" :> Str(time_range))

\* the lines main() is fed
Lines ==
    { BadText("invalid json"), BadText("{bad"), BadText("{\"tool\": "),
      JsonText(PyList(<<PyInt(1), PyInt(2)>>)), JsonText(PyNone), JsonText(PyInt(5)),
      JsonText(Name("get_project_stats")),
      JsonText(PyDict(<<>>)),
      JsonText(PyDict("parameters" :> PyDict(<<>>))),
      JsonText(PyDict("tool" :> Str(<<>>))),
      Request(PyNone, Params(<<"2", "4", "h">>)),
      Request(Name("unknown_tool"), PyDict(<<>>)),
      Request(Name("unknown_tool"), Params(<<"2", "4", "h">>)),
      Request(Name("unknown_tool"), PyList(<<PyInt(1)>>)),
      Request(PyInt(7), PyDict(<<>>)),
      JsonText(PyDict("tool" :> Name("get_project_stats"))),
      Request(Name("get_project_stats"), Params(<<"2", "4", "h">>)),
      Request(Name("get_project_stats"), Params(ALL)),
      Request(Name("get_project_stats"), Params(<<"i", "n", "v", "a", "l", "i", "d">>)),
      Request(Name("get_project_stats"), Params(<<"2", "4", "h", "\n">>)),
      Request(Name("get_project_stats"), PyDict("bogus" :> PyInt(1))),
      Request(Name("get_project_stats"), PyList(<<PyInt(1)>>)),
      Request(Name("get_project_stats"), PyNone),
      Request(Name("get_project_stats"),
              PyDict(("time_range" :> Str(<<"7", "d">>)) @@ ("group_by" :> Name("level")))),
      JsonText(PyDict("tool" :> Name("get_error_trends"))),
      Request(Name("get_error_trends"),
              PyDict(("time_range" :> Str(<<"7", "d">>))
                     @@ ("min_occurrences" :> PyInt(5)))),
      Request(Name("get_error_trends"), Params(<<"1", "6", "9", "h">>)),
      Request(Name("get_impact_analysis"), Params(<<"2", "4", "h">>)),
      Request(Name("get_impact_analysis"), PyDict(<<>>)),
      Request(Name("get_impact_analysis"),
              PyDict(("time_range" :> Str(ALL)) @@ ("issue_id" :> Name("7")))),
      Request(Name("get_impact_analysis"), Params(<<"0", "d">>)) }

\* the tool a line names, "" when it names none of the three
ToolOf(line) ==
    IF line.kind = "json" /\ line.doc.t = "dict" /\ "tool" \in DOMAIN line.doc.d
       /\ line.doc.d["tool"].t = "str" /\ Len(line.doc.d["tool"].s) = 1
       /\ line.doc.d["tool"].s[1] \in Tools
    THEN line.doc.d["tool"].s[1] ELSE ""

\* the replies the upstream may give to the requests a line leads to
RepliesFor(line) ==
    IF ToolOf(line) = "" THEN { [none |-> TRUE] }
    ELSE IF ToolOf(line) = "get_impact_analysis"
    THEN { [project_detail |-> d, stats |-> a, sessions |-> b, releases |-> c] :
             d \in DetailReplies, a \in StatsReplies,
             b \in SessionReplies, c \in ReleaseReplies }
    ELSE { [project_detail |-> d, issues |-> i] :
             d \in DetailReplies, i \in IssueReplies }

ServerDates == { Iso(0, "Z"), Iso(MaxCreated, "") }

Init ==
    /\ clock = 0
    /\ upstream \in [dateCreated : ServerDates]
    /\ server = NoServer
    /\ reporter = NoReporter
    /\ op = [name |-> "none", args |-> PyNone]
    /\ result = Pending
    /\ calls = <<>>
    /\ invoked = <<>>
    /\ clockReads = <<>>
    /\ pc = "start"
    /\ stdin = [n |-> 0, last |-> "none"]
    /\ stdout = [n |-> 0, last |-> JsonDumps(PyNone)]
    /\ lookups = 0

\* the project-list requests among the upstream requests sent
ProjectLookups(sent) ==
    Cardinality({ i \in 1..Len(sent) : sent[i].endpoint = "projects" })

\* a reporter that loses its project id when a request ends in an error
AfterRequest_ForgetsProjectOnError(self, done) ==
    IF Returned(done.result) /\ "error" \in DOMAIN done.result.value
    THEN [self EXCEPT !.project_id = Str(<<>>)]
    ELSE self

\* the reporter's fields after handle_request: it assigns none of them, and
\* neither do the report operations
AfterRequest(self, done) == self

\* print(json.dumps(response))
WriteLine(response) == stdout' = [n |-> stdout.n + 1, last |-> JsonDumps(response)]

\* server = SentryMCPServer(), and the except clause around it
Construct ==
    /\ pc = "start"
    /\ \E env \in Environments, projects \in ProjectListReplies :
        \E made \in {NewServer(env, [projects |-> projects])} :
            /\ op' = [name |-> "SentryMCPServer", args |-> env]
            /\ result' = made.result
            /\ calls' = made.calls
            /\ invoked' = <<>>
            /\ clockReads' = <<>>
            /\ lookups' = lookups + ProjectLookups(made.calls)
            /\ IF Raised(made.result)
               THEN /\ WriteLine(ErrorEnvelope(<<"Server initialization failed: ",
                                             made.result.msg>>))
                    /\ pc' = "stopped"
                    /\ UNCHANGED objVars
               ELSE /\ server' = made.result.value.server
                    /\ reporter' = made.result.value.reporter
                    /\ pc' = "serving"
                    /\ UNCHANGED stdout
    /\ UNCHANGED <<envVars, stdin>>

\* one turn of the loop on a non-empty line: handle_request, then print
ServeLine ==
    /\ pc = "serving"
    /\ stdin.n < MaxLines
    /\ \E line \in Lines, reads \in ClockReadings :
        \E replies \in RepliesFor(line) :
            \E done \in {HandleRequest(reporter, line, reads, replies)} :
                /\ stdin' = [n |-> stdin.n + 1, last |-> "line"]
                /\ op' = [name |-> "handle_request", args |-> line]
                /\ result' = done.result
                /\ calls' = done.calls
                /\ invoked' = done.invoked
                /\ clockReads' = done.clockReads
                /\ clock' = LastRead(done.clockReads)
                /\ lookups' = lookups + ProjectLookups(done.calls)
                /\ reporter' = AfterRequest(reporter, done)
                /\ IF Raised(done.result)
                   THEN /\ WriteLine(ErrorEnvelope(<<"Server initialization failed: ",
                                                 done.result.msg>>))
                        /\ pc' = "stopped"
                   ELSE /\ WriteLine(done.result.value)
                        /\ pc' = "serving"
    /\ UNCHANGED <<upstream, server>>

\* one turn of the loop on an empty line: continue
SkipEmptyLine ==
    /\ pc = "serving"
    /\ stdin.n < MaxLines
    /\ stdin' = [n |-> stdin.n + 1, last |-> "empty"]
    /\ UNCHANGED <<envVars, objVars, traceVars, pc, stdout, lookups>>

\* input() raises EOFError: break
EndOfInput ==
    /\ pc = "serving"
    /\ stdin' = [stdin EXCEPT !.last = "eof"]
    /\ pc' = "stopped"
    /\ UNCHANGED <<envVars, objVars, traceVars, stdout, lookups>>

\* KeyboardInterrupt: break
Interrupt ==
    /\ pc = "serving"
    /\ stdin' = [stdin EXCEPT !.last = "interrupt"]
    /\ pc' = "stopped"
    /\ UNCHANGED <<envVars, objVars, traceVars, stdout, lookups>>

Next ==
    \/ Construct
    \/ ServeLine
    \/ SkipEmptyLine
    \/ EndOfInput
    \/ Interrupt

Spec == Init /\ [][Next]_vars

(***************************************************************************)
(* Specification of the loop of sentry_mcp.py: main() reads a line, parses *)
(* it, hands the parsed request to handle_request and prints the response. *)
(***************************************************************************)
LegacyEnvironments ==
    [SENTRY_AUTH_TOKEN : {Name("token"), PyNone},
     SENTRY_ORG_SLUG : {Name("org")},
     SENTRY_PROJECT_SLUG : {Name("project")}]

\* the lines sentry_mcp.py's main() is fed
LegacyLines ==
    { BadText("invalid json"),
      JsonText(PyNone),
      JsonText(PyDict(<<>>)),
      Request(PyInt(7), PyDict(<<>>)),
      Request(Name("unknown_tool"), PyDict(<<>>)),
      Request(Name("unknown_tool"), Params(<<"2", "4", "h">>)),
      Request(Name("unknown_tool"), PyList(<<PyInt(1)>>)),
      JsonText(PyDict("tool" :> Name("get_project_stats"))),
      Request(Name("get_project_stats"), Params(<<"2", "4", "h">>)),
      Request(Name("get_project_stats"), Params(ALL)),
      Request(Name("get_project_stats"), PyDict("bogus" :> PyInt(1))),
      Request(Name("get_project_stats"), PyList(<<PyInt(1)>>)),
      Request(Name("get_error_trends"),
              PyDict(("time_range" :> Str(<<"7", "d">>))
                     @@ ("min_occurrences" :> PyInt(5)))),
      Request(Name("get_impact_analysis"), Params(<<"2", "4", "h">>)),
      Request(Name("get_impact_analysis"), PyDict(<<>>)) }

\* the replies the upstream may give to the requests a line leads to, the
\* project list of the reporter's construction among them
LegacyRepliesFor(line) ==
    { [projects |-> p] @@ r : p \in ProjectListReplies, r \in RepliesFor(line) }

InitLegacy ==
    /\ clock = 0
    /\ upstream \in [dateCreated : ServerDates]
    /\ server = NoServer
    /\ reporter = NoReporter
    /\ op = [name |-> "none", args |-> PyNone]
    /\ result = Pending
    /\ calls = <<>>
    /\ invoked = <<>>
    /\ clockReads = <<>>
    /\ pc = "serving"
    /\ stdin = [n |-> 0, last |-> "none"]
    /\ stdout = [n |-> 0, last |-> JsonDumps(PyNone)]
    /\ lookups = 0

\* what one turn of the loop answers a line with: the inner try of main()
\* around json.loads and handle_request
LegacyAnswer(env, line, reads, replies) ==
    IF Raised(JsonLoads(line))
    THEN Handled(Return(ErrorEnvelope(<<"Invalid JSON request">>)), <<>>, <<>>, <<>>)
    ELSE LegacyHandleRequest(env, JsonLoads(line).value, reads, replies)

\* one turn of the loop on a line: readline, json.loads, handle_request, print
LegacyServeLine ==
    /\ pc = "serving"
    /\ stdin.n < MaxLines
    /\ \E line \in LegacyLines, reads \in ClockReadings, env \in LegacyEnvironments :
        \E replies \in LegacyRepliesFor(line) :
            \E done \in {LegacyAnswer(env, line, reads, replies)} :
                /\ stdin' = [n |-> stdin.n + 1, last |-> "line"]
                /\ op' = [name |-> "legacy.handle_request", args |-> line]
                /\ result' = done.result
                /\ calls' = done.calls
                /\ invoked' = done.invoked
                /\ clockReads' = done.clockReads
                /\ clock' = LastRead(done.clockReads)
                /\ lookups' = lookups + ProjectLookups(done.calls)
                /\ WriteLine(done.result.value)
    /\ UNCHANGED <<upstream, objVars, pc>>

\* readline() returns '': break
LegacyEndOfInput ==
    /\ pc = "serving"
    /\ stdin' = [stdin EXCEPT !.last = "eof"]
    /\ pc' = "stopped"
    /\ UNCHANGED <<envVars, objVars, traceVars, stdout, lookups>>

\* KeyboardInterrupt: break
LegacyInterrupt ==
    /\ pc = "serving"
    /\ stdin' = [stdin EXCEPT !.last = "interrupt"]
    /\ pc' = "stopped"
    /\ UNCHANGED <<envVars, objVars, traceVars, stdout, lookups>>

NextLegacy ==
    \/ LegacyServeLine
    \/ LegacyEndOfInput
    \/ LegacyInterrupt

SpecLegacy == InitLegacy /\ [][NextLegacy]_vars

(***************************************************************************)
(* Claims about handle_request and the loop of main()                      *)
(***************************************************************************)
HandledLine == op.name = "handle_request" /\ result # Pending
Response == result.value

\* the request was served: a report operation ran and returned
Served ==
    /\ Len(invoked) = 1
    /\ Returned(invoked[1].outcome)

\* C1: handle_request never raises: for every input string it returns a
\* mapping, and the mapping has an 'error' key whenever the request could
\* not be served.
C1_HandleRequestNeverRaises ==
    HandledLine =>
        /\ Returned(result)
        /\ ~Served => "error" \in DOMAIN Response

\* C2: after any request line the loop has printed the envelope of that
\* line and goes on serving; only end of input or an interrupt stops it.
C2_LoopSurvivesEveryLine ==
    (pc # "start" /\ stdin.last = "line") =>
        /\ pc = "serving"
        /\ Returned(result)
        /\ stdout.last = JsonDumps(Response)

\* C3 as stated: every line that is not parsable JSON is answered with the
\* one envelope {"error": "Invalid JSON request"}, and nothing is invoked.
C3_FixedInvalidJsonEnvelope ==
    (HandledLine /\ op.args.kind = "text") =>
        /\ result = Return(ErrorEnvelope(<<"Invalid JSON request">>))
        /\ invoked = <<>>
        /\ calls = <<>>

\* C3 as amended: every line that is not parsable JSON is answered with an
\* envelope whose only key is 'error' and whose message is "Invalid JSON
\* request: " followed by the decoder's message for that line; no report
\* operation and no upstream query is invoked.
C3_InvalidJsonEnvelope ==
    (HandledLine /\ op.args.kind = "text") =>
        /\ Returned(result)
        /\ DOMAIN Response = {"error"}
        /\ Len(Response["error"]) = 2
        /\ Response["error"][1] = "Invalid JSON request: "
        /\ Response["error"][2] = JSONDecodeErrorMsg(op.args.text)
        /\ invoked = <<>>
        /\ calls = <<>>

C3_Witness ==
    /\ HandledLine
    /\ op.args = BadText("{bad")
    /\ Response["error"] =
          <<"Invalid JSON request: ",
            "Expecting property name enclosed in double quotes: line 1 column 2 (char 1)">>

HandledRequest ==
    op.name \in {"handle_request", "legacy.handle_request"} /\ result # Pending

\* the request was a JSON object
RequestObject == op.args.kind = "json" /\ op.args.doc.t = "dict"
RequestTool == Get(op.args.doc.d, "tool", PyNone)
RequestParams == Get(op.args.doc.d, "parameters", PyDict(<<>>))

\* the request names a tool, and not one of the three known ones
UnknownToolRequest ==
    /\ HandledRequest
    /\ RequestObject
    /\ RequestTool.t = "str"
    /\ RequestTool.s # <<>>
    /\ ~(Len(RequestTool.s) = 1 /\ RequestTool.s[1] \in Tools)

\* C11: a request whose tool is a non-empty name other than the three known
\* ones is answered with exactly {"error": "Unknown tool: <name>"}, whatever
\* its parameters, and neither a report operation nor an upstream query is
\* invoked.
C11_UnknownToolEnvelope ==
    UnknownToolRequest =>
        /\ result = Return(ErrorEnvelope(<<"Unknown tool: ", RequestTool>>))
        /\ invoked = <<>>
        /\ calls = <<>>

\* C12: a parsed request object without a 'tool' field, or with an empty
\* one, is answered with exactly {"error": "Missing required field: tool"},
\* and no report operation is invoked whatever its parameters.
C12_MissingToolEnvelope ==
    (HandledLine /\ RequestObject /\ ~Truthy(RequestTool)) =>
        /\ result = Return(ErrorEnvelope(<<"Missing required field: tool">>))
        /\ invoked = <<>>
        /\ calls = <<>>

C12_Witness ==
    /\ HandledLine
    /\ op.args = Request(PyNone, Params(<<"2", "4", "h">>))
    /\ result = Return(ErrorEnvelope(<<"Missing required field: tool">>))
    /\ stdout.last = JsonDumps(ErrorEnvelope(<<"Missing required field: tool">>))

\* the request names one of the three known tools
KnownToolRequest == HandledRequest /\ RequestObject /\ ToolOf(op.args) # ""

\* its parameters hold a name the tool's operation does not accept
UnexpectedParameter ==
    /\ KnownToolRequest
    /\ RequestParams.t = "dict"
    /\ DOMAIN RequestParams.d \ Accepted(ToolOf(op.args)) # {}

\* C13: a request for a known tool with a parameter name its operation does
\* not accept is answered with an error envelope; the operation is not run
\* with the remaining parameters and no upstream query is sent.
C13_UnexpectedParameterFails ==
    UnexpectedParameter =>
        /\ Returned(result)
        /\ "error" \in DOMAIN result.value
        /\ invoked = <<>>
        /\ calls = <<>>

\* the request's parameters bind to the operation's parameters
BoundRequest ==
    /\ HandledLine
    /\ KnownToolRequest
    /\ Bind(ToolOf(op.args), RequestParams) = Pending

\* the upstream requests sent to an endpoint
CallsTo(endpoint) == SelectSeq(calls, LAMBDA c : c.endpoint = endpoint)

\* C14: for each known tool, handle_request calls the matching report
\* operation and no other, once, with the request's parameters as its named
\* arguments (an omitted time_range being 'all' and an omitted
\* min_occurrences 10, the operations' defaults), and returns the mapping
\* the operation returned, unchanged.
C14_DispatchesToMatchingOperation ==
    BoundRequest =>
        /\ Len(invoked) = 1
        /\ invoked[1].name = ToolOf(op.args)
        /\ invoked[1].args = RequestParams.d
        /\ Returned(invoked[1].outcome) => result = invoked[1].outcome
        /\ "time_range" \notin DOMAIN RequestParams.d =>
               (calls # <<>> /\ calls[1].endpoint = "project_detail")
        /\ (ToolOf(op.args) = "get_error_trends"
            /\ "min_occurrences" \notin DOMAIN RequestParams.d) =>
               \A i \in 1..Len(CallsTo("issues")) :
                   CallsTo("issues")[i].params["query"] = <<"times_seen:>=", PyInt(10)>>
        /\ ToolOf(op.args) = "get_project_stats" =>
               (Returned(invoked[1].outcome) => "total_errors" \in DOMAIN result.value)
        /\ ToolOf(op.args) = "get_error_trends" =>
               (Returned(invoked[1].outcome) => "trends" \in DOMAIN result.value)
        /\ ToolOf(op.args) = "get_impact_analysis" =>
               (Returned(invoked[1].outcome) => "error_stats" \in DOMAIN result.value)

C14_Witness ==
    /\ BoundRequest
    /\ op.args = Request(Name("get_error_trends"),
                         PyDict(("time_range" :> Str(<<"7", "d">>))
                                @@ ("min_occurrences" :> PyInt(5))))
    /\ Len(invoked) = 1
    /\ Returned(invoked[1].outcome)
    /\ result = invoked[1].outcome
    /\ Len(result.value["trends"]) = 2
    /\ stdout.last = JsonDumps(result.value)

(***************************************************************************)
(* Claims about construction                                               *)
(***************************************************************************)
\* SentryMCPServer() has been attempted, and nothing has run since
Constructing == op.name = "SentryMCPServer" /\ result # Pending

\* one of the three environment variables is unset or empty
EnvIncomplete ==
    \E v \in {"SENTRY_AUTH_TOKEN", "SENTRY_ORG", "SENTRY_PROJECT"} : ~Truthy(op.args[v])

\* the project list was answered and does not hold the configured slug
SlugNotListed ==
    /\ ~EnvIncomplete
    /\ calls # <<>>
    /\ calls[1].reply.ok
    /\ \A i \in 1..Len(calls[1].reply.body) :
           calls[1].reply.body[i].slug # op.args["SENTRY_PROJECT"]

\* C16: construction fails fast with SentryConfigError when an environment
\* variable is absent or empty, before any upstream call, and when the
\* configured slug is not among the listed projects; then no server or
\* reporter object exists, main() stops, and no request is ever handled.
C16_ConstructionFailsFast ==
    /\ (Constructing /\ EnvIncomplete) =>
           /\ Raised(result)
           /\ result.exc = "SentryConfigError"
           /\ calls = <<>>
           /\ lookups = 0
    /\ (Constructing /\ SlugNotListed) =>
           /\ Raised(result)
           /\ result.exc = "SentryConfigError"
           /\ result.msg = <<"Project ", op.args["SENTRY_PROJECT"], " not found">>
    /\ (Constructing /\ Raised(result)) =>
           /\ server = NoServer
           /\ reporter = NoReporter
           /\ pc = "stopped"
           /\ stdin.n = 0
    /\ op.name = "handle_request" => (server # NoServer /\ reporter # NoReporter)

C16_Witness ==
    /\ Constructing
    /\ SlugNotListed
    /\ result = Raise("SentryConfigError", <<"Project ", Name("project"), " not found">>)
    /\ server = NoServer
    /\ pc = "stopped"
    /\ lookups = 1

(***************************************************************************)
(* Claims about what one request leaves behind for the next                *)
(***************************************************************************)
\* the clock readings the handled request was given
ReadsGiven == IF clockReads = <<>> THEN <<clock>> ELSE clockReads

\* the response is what handle_request computes from the reporter's fields,
\* the request, the clock readings and some upstream replies alone
Reproducible ==
    \E replies \in RepliesFor(op.args) :
        HandleRequest(reporter, op.args, ReadsGiven, replies)
            = Handled(result, calls, clockReads, invoked)

ReturnedIssues == calls[Len(calls)].reply.body

\* the number an issue carries under key, 0 when it carries none
FieldValue(issue, key) ==
    IF key \notin DOMAIN issue THEN 0
    ELSE IF issue[key].t = "int" THEN issue[key].v
    ELSE CHOOSE n \in 0..MaxN : Decimal(n) = issue[key].s

RECURSIVE TotalOf(_, _)
TotalOf(issues, key) ==
    IF issues = <<>> THEN 0
    ELSE TotalOf(SubSeq(issues, 1, Len(issues) - 1), key)
         + FieldValue(issues[Len(issues)], key)

StatsReturned == Ran("get_project_stats") /\ Returned(result)

\* the totals of the report are the sums over the returned issues
TotalsAreSums ==
    /\ result.value.total_errors = TotalOf(ReturnedIssues, "count")
    /\ result.value.total_users_affected = TotalOf(ReturnedIssues, "userCount")

\* C18 as stated: the totals are the sums of 'count' and 'userCount' over
\* the returned issues, and error_breakdown is the raw issue list whenever a
\* group_by argument was supplied and null otherwise.
C18_StatsTotalsAndBreakdown ==
    StatsReturned =>
        /\ TotalsAreSums
        /\ result.value.error_breakdown =
               IF "group_by" \in DOMAIN op.args THEN PyList(ReturnedIssues) ELSE PyNone

\* C18 as amended: the totals are the sums of 'count' and 'userCount' over
\* the returned issues (a missing field counting as 0, an empty list giving
\* 0 and 0), and error_breakdown is the raw issue list when group_by was
\* supplied with a non-empty value, and null when it was omitted or empty.
C18_StatsTotalsAndNonEmptyGroupBy ==
    StatsReturned =>
        /\ TotalsAreSums
        /\ ReturnedIssues = <<>> =>
               (result.value.total_errors = 0 /\ result.value.total_users_affected = 0)
        /\ result.value.error_breakdown =
               IF "group_by" \in DOMAIN op.args /\ op.args["group_by"] # Str(<<>>)
               THEN PyList(ReturnedIssues) ELSE PyNone

C18_Witness ==
    /\ StatsReturned
    /\ Len(ReturnedIssues) = 2
    /\ result.value.total_errors = 30
    /\ result.value.total_users_affected = 13
    /\ "group_by" \in DOMAIN op.args
    /\ op.args["group_by"] = Str(<<"l", "e", "v", "e", "l">>)
    /\ result.value.error_breakdown = PyList(ReturnedIssues)

TrendsReturned == Ran("get_error_trends") /\ Returned(result)

\* C19: get_error_trends returns one entry per returned issue, in the
\* upstream's order, nothing re-sorted, filtered or merged, each entry
\* carrying the issue's type, title, count, firstSeen and lastSeen verbatim
\* and its userCount, or 0 when the issue has none.
C19_TrendsMirrorUpstream ==
    TrendsReturned =>
        /\ Len(result.value.trends) = Len(ReturnedIssues)
        /\ \A i \in 1..Len(ReturnedIssues) :
               /\ result.value.trends[i].error_type = ReturnedIssues[i]["type"]
               /\ result.value.trends[i].message = ReturnedIssues[i]["title"]
               /\ result.value.trends[i].count = ReturnedIssues[i]["count"]
               /\ result.value.trends[i].first_seen = ReturnedIssues[i]["firstSeen"]
               /\ result.value.trends[i].last_seen = ReturnedIssues[i]["lastSeen"]
               /\ result.value.trends[i].users_affected =
                      IF "userCount" \in DOMAIN ReturnedIssues[i]
                      THEN ReturnedIssues[i]["userCount"] ELSE PyInt(0)

C19_Witness ==
    /\ TrendsReturned
    /\ Len(result.value.trends) = 3
    /\ result.value.trends[1].error_type = "TypeError"
    /\ result.value.trends[1].users_affected = PyInt(0)
    /\ result.value.trends[2].message = "b"
    /\ result.value.trends[2].count = PyInt(9)
    /\ result.value.trends[3] = result.value.trends[1]

\* C20: the 'trends' list holds at most 100 entries, however many issues
\* the upstream answers with.
C20_TrendsAtMostLimit ==
    TrendsReturned => Len(result.value.trends) <= TrendLimit

(***************************************************************************)
(* Claims about the resolution of the project id                           *)
(***************************************************************************)
\* C15: the project id is resolved by one project-list lookup at
\* construction and never again: however many requests are handled, the
\* process has sent at most one project-list lookup, no handled request
\* sends one, and the reporter keeps the id its construction resolved.
C15_ProjectResolvedOnce ==
    /\ lookups <= 1
    /\ HandledRequest => ProjectLookups(calls) = 0
    /\ (HandledRequest /\ reporter # NoReporter) =>
           (lookups = 1 /\ reporter.project_id = Str(<<"4", "2">>))

(***************************************************************************)
(* Claims about the upstream queries of one report operation               *)
(***************************************************************************)
\* one of the three report operations of SentryReporter has run
ReportRan ==
    Ran("get_project_stats") \/ Ran("get_error_trends") \/ Ran("get_impact_analysis")

\* the most queries the operation that ran may send
QueryLimit == IF op.name = "get_impact_analysis" THEN 4 ELSE 2

\* C21: no upstream query is retried: within one report operation each
\* endpoint is requested at most once, only the last query sent can be a
\* failed one and the operation then fails, and get_project_stats and
\* get_error_trends send at most 2 queries, get_impact_analysis at most 4.
C21_NoQueryRetried ==
    ReportRan =>
        /\ \A i, j \in 1..Len(calls) :
                calls[i].endpoint = calls[j].endpoint => i = j
        /\ \A i \in 1..Len(calls) :
                ~calls[i].reply.ok => (i = Len(calls) /\ Raised(result))
        /\ Len(calls) <= QueryLimit

\* get_impact_analysis over 'all' whose second query, the first report
\* query, fails
C21_Witness ==
    /\ Ran("get_impact_analysis")
    /\ op.args["time_range"] = Str(ALL)
    /\ Len(calls) = 2
    /\ calls[1].reply.ok
    /\ ~calls[2].reply.ok
    /\ Raised(result)

\* the queries of the operation other than the creation-date lookup
ReportQueries == SelectSeq(calls, LAMBDA c : c.endpoint # "project_detail")

\* the range the operation was called with
RangeArg == Get(op.args, "time_range", Str(ALL))

\* the instants _parse_time_range resolved the range to
ResolvedWindow ==
    ParseTimeRange(RangeArg, clockReads, [project_detail |-> calls[1].reply]).result.value

\* the query carries the window of the range in its one form
WindowInOneForm(params) ==
    IF RangeArg = Str(ALL)
    THEN /\ "statsPeriod" \notin DOMAIN params
         /\ {"start", "end"} \subseteq DOMAIN params
         /\ params["start"] = IsoFormat(ResolvedWindow[1])
         /\ params["end"] = IsoFormat(ResolvedWindow[2])
    ELSE /\ "statsPeriod" \in DOMAIN params
         /\ params["statsPeriod"] = RangeArg
         /\ "start" \notin DOMAIN params
         /\ "end" \notin DOMAIN params

\* C25: every report query sent upstream by the three operations carries
\* the resolved time window in exactly one form: statsPeriod equal to the
\* range string and no start/end for '<N>h' and '<N>d', start/end equal to
\* the resolved instants and no statsPeriod for 'all'; 'all' is never sent
\* as statsPeriod.
C25_WindowInExactlyOneForm ==
    ReportRan =>
        \A i \in 1..Len(ReportQueries) :
            /\ WindowInOneForm(ReportQueries[i].params)
            /\ Get(ReportQueries[i].params, "statsPeriod", PyNone) # Str(ALL)

\* the range is a string outside the set the validator is specified to accept
RangeInvalid == RangeArg.t = "str" /\ ~SpecifiedValid(RangeArg.s)

\* C24: the time range is resolved before any report query: for every range
\* string that fails validation the three operations raise
\* SentryValidationError without having sent any upstream query, and for
\* 'all' the creation-date lookup is the first upstream query.
C24_RangeResolvedFirst ==
    /\ (ReportRan /\ RangeInvalid) =>
            /\ Raised(result)
            /\ result.exc = "SentryValidationError"
            /\ calls = <<>>
    /\ (ReportRan /\ RangeArg = Str(ALL)) =>
            /\ calls # <<>>
            /\ calls[1].endpoint = "project_detail"

(***************************************************************************)
(* Claims about the pairing of input lines and output lines                *)
(***************************************************************************)
\* C23: the loop is strictly one-in, one-out: every input line read produces
\* exactly one output line, written before the next line is read, so the
\* k-th output line answers the k-th input line; end of input ends the loop
\* without writing anything.
C23_OneInOneOut ==
    [][pc = "serving" =>
        \/ /\ stdin'.n = stdin.n + 1
           /\ stdout'.n = stdout.n + 1
           /\ stdout'.n = stdin'.n
        \/ /\ stdin'.n = stdin.n
           /\ stdin'.last \in {"eof", "interrupt"}
           /\ stdout' = stdout
           /\ pc' = "stopped"]_vars

(***************************************************************************)
(* Specification of the HTTP transport: run_server of cli.py checks the    *)
(* environment and hands the import string "sentry_mcp.core.server:app"    *)
(* to uvicorn, which serves the attribute of that name of the module.     *)
(***************************************************************************)
\* the names core/server.py binds at module level
ModuleAttributes ==
    { "json", "os", "Dict", "Optional", "structlog", "load_dotenv",
      "SentryReporter", "SentryAPIError", "SentryConfigError",
      "SentryValidationError", "logger", "SentryMCPServer", "main" }

\* the attribute the import string of run_server names
AppAttribute == "app"

\* uvicorn's loading of the application the import string names
ImportFromString(attribute) ==
    IF attribute \in ModuleAttributes
    THEN Return(attribute)
    ELSE Raise("ImportFromStringError",
               <<"Attribute \"", attribute,
                 "\" not found in module \"sentry_mcp.core.server\".">>)

\* the variables run_server finds unset or empty
MissingVars(env) == { var \in DOMAIN env : ~Truthy(env[var]) }

InitHttp ==
    /\ clock = 0
    /\ upstream = [dateCreated |-> NotADate]
    /\ server = NoServer
    /\ reporter = NoReporter
    /\ op = [name |-> "none", args |-> PyNone]
    /\ result = Pending
    /\ calls = <<>>
    /\ invoked = <<>>
    /\ clockReads = <<>>
    /\ pc = "start"
    /\ stdin = [n |-> 0]
    /\ stdout = [n |-> 0]
    /\ lookups = 0

\* run_server: exit on a missing variable, else uvicorn.run on the import
\* string; without an application to load nothing accepts connections
RunServer ==
    /\ pc = "start"
    /\ \E env \in Environments :
        /\ op' = [name |-> "run_server", args |-> env]
        /\ IF MissingVars(env) # {}
           THEN /\ stdout' = [n |-> stdout.n + Cardinality(MissingVars(env)) + 3]
                /\ result' = Raise("SystemExit", <<1>>)
                /\ pc' = "exited"
           ELSE /\ result' = ImportFromString(AppAttribute)
                /\ pc' = IF Raised(ImportFromString(AppAttribute))
                         THEN "not_serving" ELSE "listening"
                /\ UNCHANGED stdout
    /\ UNCHANGED <<envVars, objVars, calls, invoked, clockReads, stdin, lookups>>

\* a client posts a request body to /mcp on port 8000 while no application
\* accepts connections there
PostMcp ==
    /\ pc \in {"exited", "not_serving"}
    /\ op.name = "run_server"
    /\ \E body \in Lines :
        /\ op' = [name |-> "POST /mcp", args |-> body]
        /\ result' = Raise("ConnectionRefusedError", <<"Connection refused">>)
    /\ UNCHANGED <<envVars, objVars, calls, invoked, clockReads, ioVars>>

NextHttp ==
    \/ RunServer
    \/ PostMcp

SpecHttp == InitHttp /\ [][NextHttp]_vars

(***************************************************************************)
(* Claims about the HTTP transport                                         *)
(***************************************************************************)
\* a request was posted to /mcp after run_server started uvicorn
Posted == op.name = "POST /mcp" /\ result # Pending /\ pc # "exited"

\* C22: the HTTP transport answers POST /mcp with status 400 when the
\* request fails validation, 502 when an upstream query fails, 500 on any
\* other failure and 200 with the result mapping on success: every posted
\* request is answered, with one of these four statuses.
C22_PostAnsweredWithStatus ==
    Posted =>
        /\ Returned(result)
        /\ result.value.status \in {200, 400, 500, 502}
====
